---- MODULE Spec2Model ----
(***************************************************************************)
(* Task lifecycle and audit engine of the Nexus AI task service            *)
(* (TasksService over the Mongoose Task schema).                           *)
(*                                                                         *)
(* The store is the sequence `tasks`; a task's id is its index.  Every     *)
(* handler that reads before it writes (update, remove, restore,           *)
(* updatePosition) is split at its await: the Read step is the findOne     *)
(* query at the store together with the synchronous code that follows it,  *)
(* the Write step is findByIdAndUpdate at the store.  Requests between     *)
(* their two steps sit in `reqs`.                                          *)
(*                                                                         *)
(* ProjectsService works on the collection `projects` in the same way, with *)
(* one more step for the name check of update and restore; the store        *)
(* enforces the unique index on (team_id, name).  The two services share    *)
(* no data: TasksService never reads a project.                             *)
(***************************************************************************)
EXTENDS Integers, Sequences, FiniteSets, Bags, TLC

VARIABLES tasks, projects, reqs, now, nops, resp, everDone

vars == <<tasks, projects, reqs, now, nops, resp, everDone>>

(***************************************************************************)
(* Bounds of the model.                                                    *)
(***************************************************************************)
MaxTasks == 2
MaxReqs == 2
MaxOps == 3
MaxProjects == 2
MaxProjectOps == 4
MaxServiceOps == 3
MaxClock == 4

(***************************************************************************)
(* Program constants.                                                      *)
(***************************************************************************)
HISTORY_LIMIT == 100
DEFAULT_PRIORITY == 3
MAX_TITLE == 200
MAX_LABELS == 50

(***************************************************************************)
(* Values.  A string field that is null or undefined holds Null; a Date    *)
(* field holds NoDate or Date(t).                                          *)
(***************************************************************************)
Null == "null"
NoDate == <<>>
Date(t) == <<t>>

TaskStatus == {"todo", "in_progress", "done", "blocked"}
DEFAULT_STATUS == "todo"

TaskIds == 1..MaxTasks

\* The identity context: {team_id, user_id} resolved per request.
Callers == << [team |-> "teamA", user |-> "u1"], [team |-> "teamB", user |-> "u2"] >>

EmptyDto == [k \in {} |-> Null]

\* A string of n characters, as the sequence of its characters, and a list of n
\* labels.
Chars(n) == [i \in 1..n |-> "a"]
Labels(n) == [i \in 1..n |-> "bug"]

SomeTitle == Chars(1)

\* Request bodies of create (CreateTaskDto).
CreateDtos == <<
    [title |-> SomeTitle],
    [title |-> SomeTitle, status |-> "done"],
    [title |-> SomeTitle, due_date |-> Date(0)] >>

\* Request bodies of create that the routes must also answer: without a title,
\* with an empty, a blank, a padded and an overlong title, with 50 and 51 labels.
InputCreateDtos == <<
    EmptyDto,
    [title |-> <<>>],
    [title |-> <<" ">>],
    [title |-> <<" ", "a", " ">>],
    [title |-> Chars(MAX_TITLE + 1)],
    [title |-> SomeTitle, labels |-> Labels(MAX_LABELS)],
    [title |-> SomeTitle, labels |-> Labels(MAX_LABELS + 1)] >>

\* Request bodies of update (UpdateTaskDto).
Patches == <<
    [status |-> "done"],
    [status |-> "in_progress", priority |-> 1, assignee_id |-> "u2"],
    [assignee_id |-> "u2"],
    [labels |-> <<>>],
    [priority |-> 3] >>

\* Request bodies of update that the routes must also answer: with the fields a
\* client may not set, with an empty, a blank and an overlong title, with a new
\* title, with 51 labels.
InputPatches == <<
    [team_id |-> "teamB"],
    [created_by |-> "u2", status |-> "done"],
    [title |-> <<>>],
    [title |-> <<" ">>],
    [title |-> Chars(MAX_TITLE + 1)],
    [title |-> <<"b">>],
    [labels |-> Labels(MAX_LABELS + 1)] >>

\* Request bodies of updatePosition.
Positions == {0, 1}

\* What the last handler to finish gave its caller.
NoResp == [op |-> "none", id |-> 0, team |-> Null, outcome |-> "none"]

Response(op, id, team, outcome) ==
    [op |-> op, id |-> id, team |-> team, outcome |-> outcome]

(***************************************************************************)
(* The Task schema.                                                        *)
(***************************************************************************)
\* The enum the schema declares for the action of a history entry.
HistoryActionEnum == {"created", "updated", "assigned", "status_changed", "commented"}

HistoryEntry(action, userId, ts, changes) ==
    [action |-> action, user_id |-> userId, timestamp |-> ts, changes |-> changes]

Change(field, old, new) == [field |-> field, old_value |-> old, new_value |-> new]

\* The fields of the two request classes; the global ValidationPipe refuses a
\* body with any other property (whitelist, forbidNonWhitelisted).
CreateTaskDtoKeys ==
    {"title", "description", "status", "priority", "project_id", "assignee_id",
     "labels", "tags", "due_date", "start_date", "estimated_hours"}

UpdateTaskDtoKeys == CreateTaskDtoKeys \cup {"position"}

\* CreateTaskDto: title @IsNotEmpty @IsString @MaxLength(200); labels @IsOptional
\* @IsArray @IsString({each: true}), with no limit on their number.
ValidCreateBody(dto) ==
    /\ DOMAIN dto \subseteq CreateTaskDtoKeys
    /\ "title" \in DOMAIN dto
    /\ dto.title # <<>>
    /\ Len(dto.title) <= MAX_TITLE

\* A pipe that lets every property of a body through.
ValidUpdateBodyAnyKey(dto) ==
    "title" \in DOMAIN dto => Len(dto.title) <= MAX_TITLE

\* UpdateTaskDto: title @IsOptional @IsString @MaxLength(200); labels as in
\* CreateTaskDto.
ValidUpdateBody(dto) ==
    /\ DOMAIN dto \subseteq UpdateTaskDtoKeys
    /\ "title" \in DOMAIN dto => Len(dto.title) <= MAX_TITLE

\* String.prototype.trim, the setter of title (trim: true).
RECURSIVE TrimStart(_)
TrimStart(str) == IF str # <<>> /\ Head(str) = " " THEN TrimStart(Tail(str)) ELSE str

RECURSIVE TrimEnd(_)
TrimEnd(str) ==
    IF str # <<>> /\ str[Len(str)] = " " THEN TrimEnd(SubSeq(str, 1, Len(str) - 1)) ELSE str

Trim(str) == TrimEnd(TrimStart(str))

\* The schema's setters, which run when a document is built and when an update
\* document is cast.
Setter(key, value) == IF key = "title" THEN Trim(value) ELSE value

\* The validators of the schema, which run on save(): title required, 1 to 200
\* characters; at most 50 labels.
SchemaValid(doc) ==
    /\ doc.title # <<>>
    /\ Len(doc.title) >= 1
    /\ Len(doc.title) <= MAX_TITLE
    /\ Len(doc.labels) <= MAX_LABELS

\* The document new this.taskModel({...dto, team_id, created_by, position})
\* builds, with the schema's defaults.
NewTaskDoc(dto, teamId, userId, t) ==
    [ title |-> Setter("title", dto.title),
      team_id |-> teamId,
      created_by |-> userId,
      status |-> IF "status" \in DOMAIN dto THEN dto.status ELSE DEFAULT_STATUS,
      priority |-> IF "priority" \in DOMAIN dto THEN dto.priority ELSE DEFAULT_PRIORITY,
      assignee_id |-> IF "assignee_id" \in DOMAIN dto THEN dto.assignee_id ELSE Null,
      labels |-> IF "labels" \in DOMAIN dto THEN dto.labels ELSE <<>>,
      due_date |-> IF "due_date" \in DOMAIN dto THEN dto.due_date ELSE NoDate,
      position |-> t,
      completed_at |-> NoDate,
      deleted_at |-> NoDate,
      created_at |-> t,
      updated_at |-> t,
      history |-> <<>> ]

\* A hook that also stamps completed_at on a new document of status done.
PreSaveCompletesNew(doc, isNew, statusModified, t) ==
    [doc EXCEPT
       !.created_at = t,
       !.updated_at = t,
       !.completed_at = IF doc.status = "done" THEN Date(t) ELSE @,
       !.history = Append(@, HistoryEntry("created", doc.created_by, t,
                      << Change("status", Null, doc.status) >>))]

\* TaskSchema.pre('save') on a document; isNew says which branch runs.
PreSave(doc, isNew, statusModified, t) ==
    LET d1 == IF isNew
              THEN [doc EXCEPT
                      !.created_at = t,
                      !.history = Append(@, HistoryEntry("created", doc.created_by, t,
                                     << Change("status", Null, doc.status) >>))]
              ELSE IF statusModified /\ doc.status = "done" /\ doc.completed_at = NoDate
                   THEN [doc EXCEPT !.completed_at = Date(t)]
                   ELSE doc
    IN  [d1 EXCEPT !.updated_at = t]

\* Array.prototype.slice(-n): the last n elements, all of them if there are fewer.
SliceLast(seq, n) ==
    IF Len(seq) <= n THEN seq ELSE SubSeq(seq, Len(seq) - n + 1, Len(seq))

\* An addHistoryEntry that keeps the first 100 entries.
AddHistoryEntryKeepsOldest(history, action, userId, t, changes) ==
    LET pushed == Append(history, HistoryEntry(action, userId, t, changes))
    IN  IF Len(pushed) > HISTORY_LIMIT THEN SubSeq(pushed, 1, HISTORY_LIMIT) ELSE pushed

\* TaskSchema.methods.addHistoryEntry: push, then keep the last 100.
AddHistoryEntry(history, action, userId, t, changes) ==
    LET pushed == Append(history, HistoryEntry(action, userId, t, changes))
    IN  IF Len(pushed) > HISTORY_LIMIT THEN SliceLast(pushed, HISTORY_LIMIT) ELSE pushed

HeldDone(ts) == {i \in DOMAIN ts : ts[i].status = "done"}

(***************************************************************************)
(* The Project schema and the request bodies of the project routes.        *)
(***************************************************************************)
ProjectNames == <<"X", "Y">>

ProjectIds == 1..MaxProjects

\* The document new this.projectModel({...dto, team_id, created_by}) builds and
\* ProjectSchema.pre('save') stamps.
NewProjectDoc(name, teamId, userId, t) ==
    [ name |-> name,
      team_id |-> teamId,
      created_by |-> userId,
      deleted_at |-> NoDate,
      created_at |-> t,
      updated_at |-> t ]

\* A collection without the unique index.
NoUniqueIndex(store, id, teamId, name) == TRUE

\* ProjectSchema.index({team_id: 1, name: 1}, {unique: true}): the store takes
\* the document id with this team and name only if no other document, active or
\* soft-deleted, has them.
UniqueIndexAdmits(store, id, teamId, name) ==
    \A other \in DOMAIN store \ {id} :
       ~(store[other].team_id = teamId /\ store[other].name = name)

(***************************************************************************)
(* The state after construction: empty collections, no request.            *)
(***************************************************************************)
Init ==
    /\ tasks = <<>>
    /\ projects = <<>>
    /\ reqs = EmptyBag
    /\ now = 1
    /\ nops = 0
    /\ resp = NoResp
    /\ everDone = {}

\* TasksService.create
Create(c, dto) ==
    /\ Len(tasks) < MaxTasks
    /\ ValidCreateBody(dto)
    /\ SchemaValid(NewTaskDoc(dto, c.team, c.user, now))
    /\ tasks' = Append(tasks, PreSave(NewTaskDoc(dto, c.team, c.user, now), TRUE, FALSE, now))
    /\ nops' = nops + 1
    /\ resp' = Response("create", Len(tasks) + 1, c.team, "ok")
    /\ everDone' = everDone \cup HeldDone(tasks')
    /\ now' = now + 1
    /\ UNCHANGED <<projects, reqs>>

\* The ValidationPipe refuses the body of a create: 400, before the handler.
CreateInvalid(c, dto) ==
    /\ ~ValidCreateBody(dto)
    /\ resp' = Response("create", 0, c.team, "BadRequest")
    /\ UNCHANGED <<tasks, projects, reqs, now, nops, everDone>>

\* task.save() fails the schema's validators: nothing is stored.
CreateSaveFailed(c, dto) ==
    /\ ValidCreateBody(dto)
    /\ ~SchemaValid(NewTaskDoc(dto, c.team, c.user, now))
    /\ resp' = Response("create", 0, c.team, "ValidationError")
    /\ UNCHANGED <<tasks, projects, reqs, now, nops, everDone>>

(***************************************************************************)
(* Store queries.                                                          *)
(***************************************************************************)
\* A findOne whose filter leaves out team_id.
FindOneFilterAnyTeam(doc, teamId) ==
    doc.deleted_at = NoDate

\* The filter of findOne: {_id, team_id, deleted_at: null}.
FindOneFilter(doc, teamId) ==
    /\ doc.team_id = teamId
    /\ doc.deleted_at = NoDate

\* A restore lookup that takes active tasks too.
RestoreFilterAnyState(doc, teamId) ==
    doc.team_id = teamId

\* The filter of restore's lookup: {_id, team_id, deleted_at: {$ne: null}}.
RestoreFilter(doc, teamId) ==
    /\ doc.team_id = teamId
    /\ doc.deleted_at # NoDate

\* The filter of findByIdAndUpdate(id, ...): {_id} and nothing else, so every
\* document passes it whatever its team and whether deleted or not.
FindByIdFilter(doc, teamId) == TRUE

\* this.findOne(id, teamId) resolves (TRUE) or throws NotFoundException (FALSE).
Found(id, teamId) ==
    /\ id \in DOMAIN tasks
    /\ FindOneFilter(tasks[id], teamId)

FoundDeleted(id, teamId) ==
    /\ id \in DOMAIN tasks
    /\ RestoreFilter(tasks[id], teamId)

\* Request queries of findAll (TaskQueryDto).
DefaultQuery == [k \in {} |-> FALSE]
IncludeDeleted == [include_deleted |-> TRUE]
IncludeCompleted == [include_completed |-> TRUE]
IncludeDeletedAndCompleted == [include_deleted |-> TRUE, include_completed |-> TRUE]

\* A flag of the query is set.
Flag(query, key) == key \in DOMAIN query /\ query[key]

\* A findAll that never filters on deleted_at.
FindAllFilterKeepsDeleted(doc, teamId, query) ==
    /\ doc.team_id = teamId
    /\ IF "status" \in DOMAIN query
       THEN doc.status = query.status
       ELSE ~Flag(query, "include_completed") => doc.status # "done"

\* The filter findAll builds from the query.  The project_id, labels and search
\* parts of the filter read fields no request of this model sets.
FindAllFilter(doc, teamId, query) ==
    /\ doc.team_id = teamId
    /\ ~Flag(query, "include_deleted") => doc.deleted_at = NoDate
    /\ IF "status" \in DOMAIN query
       THEN doc.status = query.status
       ELSE ~Flag(query, "include_completed") => doc.status # "done"
    /\ "assignee_id" \in DOMAIN query => doc.assignee_id = query.assignee_id
    /\ "priority" \in DOMAIN query => doc.priority = query.priority

\* The ids of the tasks findAll(teamId, query) returns.
FindAll(teamId, query) ==
    {id \in DOMAIN tasks : FindAllFilter(tasks[id], teamId, query)}

\* Every order in which the members of S can be returned.
Orderings(S) ==
    {f \in [1..Cardinality(S) -> S] : \A i, j \in DOMAIN f : i # j => f[i] # f[j]}

\* A find without the sort on position.
KanbanFindUnsorted(store, teamId) ==
    Orderings({id \in DOMAIN store :
                 store[id].team_id = teamId /\ store[id].deleted_at = NoDate})

\* A getKanbanBoard that never filters on deleted_at.
KanbanFilterKeepsDeleted(doc, teamId) ==
    doc.team_id = teamId

\* The filter of getKanbanBoard: {team_id, deleted_at: null}.
KanbanFilter(doc, teamId) ==
    /\ doc.team_id = teamId
    /\ doc.deleted_at = NoDate

\* find(filter).sort({position: 1}) over a collection: the store fixes no order
\* among documents of equal position, so every order sorted by position is a
\* possible result.
KanbanFind(store, teamId) ==
    {s \in Orderings({id \in DOMAIN store : KanbanFilter(store[id], teamId)}) :
        \A i, j \in DOMAIN s : i < j => store[s[i]].position <= store[s[j]].position}

\* The boards getKanbanBoard(teamId) can return: one column of ids per status.
KanbanBoards(store, teamId) ==
    {[st \in TaskStatus |-> SelectSeq(s, LAMBDA id : store[id].status = st)] :
        s \in KanbanFind(store, teamId)}

\* The place of a status in the ascending sort of the status strings.
StatusRank == [blocked |-> 1, done |-> 2, in_progress |-> 3, todo |-> 4]

\* sort({status: 1, position: 1}): a comes before b, or they tie.
ListBefore(a, b) ==
    \/ StatusRank[a.status] < StatusRank[b.status]
    \/ a.status = b.status /\ a.position <= b.position

\* The orders in which findAll(teamId, query) can return its tasks: every
\* order sorted by status, then position.
FindAllOrders(teamId, query) ==
    {s \in Orderings(FindAll(teamId, query)) :
        \A i, j \in DOMAIN s : i < j => ListBefore(tasks[s[i]], tasks[s[j]])}

\* A getTaskStats that counts soft-deleted tasks too.
StatsFilterKeepsDeleted(doc, teamId) ==
    doc.team_id = teamId

\* The filter of getTaskStats: {team_id, deleted_at: null}.
StatsFilter(doc, teamId) ==
    /\ doc.team_id = teamId
    /\ doc.deleted_at = NoDate

\* The length of a day, in ticks of the clock.
TicksPerDay == 4

\* today: the start of the day of t; tomorrow is a day later.
Today(t) == t - (t % TicksPerDay)

Priorities == 1..5

\* getTaskStats(teamId) over a collection read at time t.
TaskStats(store, teamId, t) ==
    LET match == {id \in DOMAIN store : StatsFilter(store[id], teamId)}
    IN  [ total |-> Cardinality(match),
          by_status |-> [st \in TaskStatus |->
                           Cardinality({id \in match : store[id].status = st})],
          by_priority |-> [p \in Priorities |->
                           Cardinality({id \in match : store[id].priority = p})],
          overdue |-> Cardinality({id \in match :
                         /\ store[id].due_date # NoDate
                         /\ store[id].due_date[1] < t
                         /\ store[id].status # "done"}),
          completed_today |-> Cardinality({id \in match :
                         /\ store[id].completed_at # NoDate
                         /\ store[id].completed_at[1] >= Today(t)
                         /\ store[id].completed_at[1] < Today(t) + TicksPerDay}) ]

(***************************************************************************)
(* update: the delta and the action label, computed from the snapshot.     *)
(***************************************************************************)
\* Object.keys(updateTaskDto), in the order of the DTO.
FieldOrder == <<"title", "status", "priority", "assignee_id", "labels", "position">>

\* newValue !== oldValue: identity for arrays (a request body's array is never
\* the stored array), value comparison for strings and numbers.
StrictNotEqual(key, newValue, oldValue) ==
    IF key = "labels" THEN TRUE ELSE newValue # oldValue

Changes(doc, dto) ==
    LET keys == SelectSeq(FieldOrder, LAMBDA k :
                    /\ k \in DOMAIN dto
                    /\ StrictNotEqual(k, dto[k], doc[k]))
    IN  [i \in 1..Len(keys) |-> Change(keys[i], doc[keys[i]], dto[keys[i]])]

\* A non-empty string is truthy.
Truthy(dto, key) == key \in DOMAIN dto /\ dto[key] # ""

HistoryAction(doc, dto) ==
    IF Truthy(dto, "status") /\ dto.status # doc.status THEN "status_changed"
    ELSE IF Truthy(dto, "assignee_id") /\ dto.assignee_id # doc.assignee_id THEN "assigned"
    ELSE "updated"

\* An update that sets completed_at on every patch to done.
SetsCompletedAlways(doc, dto) ==
    /\ "status" \in DOMAIN dto
    /\ dto.status = "done"

\* updateTaskDto.status === TaskStatus.DONE && !task.completed_at
SetsCompleted(doc, dto) ==
    /\ "status" \in DOMAIN dto
    /\ dto.status = "done"
    /\ doc.completed_at = NoDate

\* A write that puts the entry in front of the history.
PushHistoryFront(history, entry) == <<entry>> \o history

\* $push: {history: entry}
PushHistory(history, entry) == Append(history, entry)

\* An update that sets only the fields its handler saw as changed.
ApplyUpdateChangedOnly(doc, req, ts) ==
    LET seen == {req.changes[i].field : i \in DOMAIN req.changes}
        set == [k \in DOMAIN doc |-> IF k \in seen THEN Setter(k, req.patch[k]) ELSE doc[k]]
    IN  [set EXCEPT
           !.updated_at = ts,
           !.completed_at = IF req.setCompleted THEN Date(ts) ELSE @,
           !.history = PushHistory(@, HistoryEntry(req.action, req.user, ts, req.changes))]

\* An update that sets the fields in one store call and would push the history
\* entry in another.
ApplyUpdateFieldsFirst(doc, req, ts) ==
    LET set == [k \in DOMAIN doc |-> IF k \in DOMAIN req.patch THEN Setter(k, req.patch[k]) ELSE doc[k]]
    IN  [set EXCEPT
           !.updated_at = ts,
           !.completed_at = IF req.setCompleted THEN Date(ts) ELSE @]

\* The update document of update applied to the stored document.
ApplyUpdate(doc, req, ts) ==
    LET set == [k \in DOMAIN doc |-> IF k \in DOMAIN req.patch THEN Setter(k, req.patch[k]) ELSE doc[k]]
    IN  [set EXCEPT
           !.updated_at = ts,
           !.completed_at = IF req.setCompleted THEN Date(ts) ELSE @,
           !.history = PushHistory(@, HistoryEntry(req.action, req.user, ts, req.changes))]

\* A remove that records nothing in the history.
ApplyRemoveUnrecorded(doc, req, ts) ==
    [doc EXCEPT !.deleted_at = Date(ts), !.updated_at = ts]

\* The update document of remove.
ApplyRemove(doc, req, ts) ==
    [doc EXCEPT
       !.deleted_at = Date(ts),
       !.updated_at = ts,
       !.history = PushHistory(@, HistoryEntry("deleted", req.user, ts,
                      << Change("deleted_at", NoDate, Date(ts)) >>))]

\* A restore that also clears completed_at.
ApplyRestoreReopens(doc, req, ts) ==
    [doc EXCEPT
       !.deleted_at = NoDate,
       !.completed_at = NoDate,
       !.updated_at = ts,
       !.history = PushHistory(@, HistoryEntry("restored", req.user, ts,
                      << Change("deleted_at", req.oldDeletedAt, NoDate) >>))]

\* The update document of restore.
ApplyRestore(doc, req, ts) ==
    [doc EXCEPT
       !.deleted_at = NoDate,
       !.updated_at = ts,
       !.history = PushHistory(@, HistoryEntry("restored", req.user, ts,
                      << Change("deleted_at", req.oldDeletedAt, NoDate) >>))]

\* An updatePosition that keeps positions at 1 or more.
ApplyPositionClamped(doc, req, ts) ==
    [doc EXCEPT !.position = IF req.position < 1 THEN 1 ELSE req.position,
                !.updated_at = ts]

\* An updatePosition that leaves the position as it is.
ApplyPositionKeeps(doc, req, ts) ==
    [doc EXCEPT !.updated_at = ts]

\* The update document of updatePosition.
ApplyPosition(doc, req, ts) ==
    [doc EXCEPT !.position = req.position, !.updated_at = ts]

(***************************************************************************)
(* Handlers.                                                               *)
(***************************************************************************)
Request(op, id, c) ==
    [op |-> op, id |-> id, team |-> c.team, user |-> c.user, t0 |-> now]

InFlight == BagToSet(reqs)

\* The handler throws NotFoundException before any write.
Rejected(op, id, c) ==
    /\ resp' = Response(op, id, c.team, "NotFound")
    /\ UNCHANGED <<tasks, projects, reqs, now, nops, everDone>>

\* The handler has issued findByIdAndUpdate and awaits it.
Accepted(req) ==
    /\ reqs' = reqs (+) SetToBag({req})
    /\ nops' = nops + 1
    /\ UNCHANGED <<tasks, projects, now, resp, everDone>>

\* The Dates of the update document were taken between the read and now.
Stamps(req) == req.t0..now

\* findByIdAndUpdate(id, ...) at the store: the document is selected by _id alone.
StoreWrite(req, doc) ==
    /\ tasks' = [id \in DOMAIN tasks |->
                    IF id = req.id /\ FindByIdFilter(tasks[id], req.team)
                    THEN doc ELSE tasks[id]]
    /\ reqs' = reqs (-) SetToBag({req})
    /\ resp' = Response(req.op, req.id, req.team, "ok")
    /\ everDone' = everDone \cup HeldDone(tasks')
    /\ now' = now + 1
    /\ UNCHANGED <<projects, nops>>

\* TasksService.findOne
FindOne(id, c) ==
    /\ Found(id, c.team)
    /\ resp' = Response("findOne", id, c.team, "ok")
    /\ UNCHANGED <<tasks, projects, reqs, now, nops, everDone>>

FindOneRejected(id, c) ==
    /\ ~Found(id, c.team)
    /\ Rejected("findOne", id, c)

\* TasksService.update, up to the call of findByIdAndUpdate
UpdateRead(id, c, dto) ==
    /\ ValidUpdateBody(dto)
    /\ Found(id, c.team)
    /\ Accepted(Request("update", id, c) @@
                [patch |-> dto,
                 changes |-> Changes(tasks[id], dto),
                 action |-> HistoryAction(tasks[id], dto),
                 setCompleted |-> SetsCompleted(tasks[id], dto)])

\* The ValidationPipe refuses the body of an update: 400, before the handler.
UpdateInvalid(id, c, dto) ==
    /\ ~ValidUpdateBody(dto)
    /\ resp' = Response("update", id, c.team, "BadRequest")
    /\ UNCHANGED <<tasks, projects, reqs, now, nops, everDone>>

UpdateRejected(id, c) ==
    /\ ~Found(id, c.team)
    /\ Rejected("update", id, c)

UpdateWrite(req) ==
    /\ req.op = "update"
    /\ \E ts \in Stamps(req) : StoreWrite(req, ApplyUpdate(tasks[req.id], req, ts))

\* TasksService.remove
RemoveRead(id, c) ==
    /\ Found(id, c.team)
    /\ Accepted(Request("remove", id, c))

RemoveRejected(id, c) ==
    /\ ~Found(id, c.team)
    /\ Rejected("remove", id, c)

RemoveWrite(req) ==
    /\ req.op = "remove"
    /\ \E ts \in Stamps(req) : StoreWrite(req, ApplyRemove(tasks[req.id], req, ts))

\* TasksService.restore
RestoreRead(id, c) ==
    /\ FoundDeleted(id, c.team)
    /\ Accepted(Request("restore", id, c) @@ [oldDeletedAt |-> tasks[id].deleted_at])

RestoreRejected(id, c) ==
    /\ ~FoundDeleted(id, c.team)
    /\ Rejected("restore", id, c)

RestoreWrite(req) ==
    /\ req.op = "restore"
    /\ \E ts \in Stamps(req) : StoreWrite(req, ApplyRestore(tasks[req.id], req, ts))

\* TasksService.updatePosition
PositionRead(id, c, newPosition) ==
    /\ Found(id, c.team)
    /\ Accepted(Request("updatePosition", id, c) @@ [position |-> newPosition])

PositionRejected(id, c) ==
    /\ ~Found(id, c.team)
    /\ Rejected("updatePosition", id, c)

PositionWrite(req) ==
    /\ req.op = "updatePosition"
    /\ \E ts \in Stamps(req) : StoreWrite(req, ApplyPosition(tasks[req.id], req, ts))

\* TasksService.getTaskStats: Promise.all of five store reads, which the store
\* answers one by one, in any order, each from the collection as it is then.
StatsParts == {"total", "by_status", "by_priority", "overdue", "completed_today"}

NoneRead == [part \in {} |-> 0]

StatsResponse(req) ==
    Response("getTaskStats", 0, req.team, "ok") @@ [stats |-> req.got]

StatsStart(c) ==
    Accepted(Request("getTaskStats", 0, c) @@ [got |-> NoneRead])

StatsRead(req, part) ==
    /\ req.op = "getTaskStats"
    /\ part \notin DOMAIN req.got
    /\ LET value == TaskStats(tasks, req.team, req.t0)[part]
           next == [req EXCEPT !.got = (part :> value) @@ @]
       IN  reqs' = (reqs (-) SetToBag({req})) (+) SetToBag({next})
    /\ UNCHANGED <<tasks, projects, now, nops, resp, everDone>>

StatsReturn(req) ==
    /\ req.op = "getTaskStats"
    /\ DOMAIN req.got = StatsParts
    /\ reqs' = reqs (-) SetToBag({req})
    /\ resp' = StatsResponse(req)
    /\ UNCHANGED <<tasks, projects, now, nops, everDone>>

(***************************************************************************)
(* ProjectsService.  Its handlers are split at each await on the store:    *)
(* the lookup, the name check, the write.  A request's `stage` is the      *)
(* store call it awaits next.                                              *)
(***************************************************************************)
ProjectResponse(op, id, team, outcome, name) ==
    Response(op, id, team, outcome) @@ [name |-> name]

\* The filter of ProjectsService.findOne: {_id, team_id, deleted_at: null}.
ProjectFound(id, teamId) ==
    /\ id \in DOMAIN projects
    /\ projects[id].team_id = teamId
    /\ projects[id].deleted_at = NoDate

\* The filter of restore's lookup: {_id, team_id, deleted_at: {$ne: null}}.
ProjectFoundDeleted(id, teamId) ==
    /\ id \in DOMAIN projects
    /\ projects[id].team_id = teamId
    /\ projects[id].deleted_at # NoDate

\* The name check: findOne({name, team_id, deleted_at: null}), with
\* _id: {$ne: id} for the ids of `except`.
ActiveNamed(teamId, name, except) ==
    \E id \in DOMAIN projects \ except :
       /\ projects[id].name = name
       /\ projects[id].team_id = teamId
       /\ projects[id].deleted_at = NoDate

\* The handler throws before it has accepted the request.
ProjectRejected(op, id, c, outcome, name) ==
    /\ resp' = ProjectResponse(op, id, c.team, outcome, name)
    /\ UNCHANGED <<tasks, projects, reqs, now, nops, everDone>>

\* A handler that wrote the new name before it checked it.
ProjectFailedAfterWrite(req, outcome) ==
    /\ reqs' = reqs (-) SetToBag({req})
    /\ resp' = ProjectResponse(req.op, req.id, req.team, outcome, req.name)
    /\ projects' = [id \in DOMAIN projects |->
                       IF id = req.id THEN [projects[id] EXCEPT !.name = req.name]
                                      ELSE projects[id]]
    /\ UNCHANGED <<tasks, now, nops, everDone>>

\* The handler of an accepted request throws, or the store refuses its write.
ProjectFailed(req, outcome) ==
    /\ reqs' = reqs (-) SetToBag({req})
    /\ resp' = ProjectResponse(req.op, req.id, req.team, outcome, req.name)
    /\ UNCHANGED <<tasks, projects, now, nops, everDone>>

\* The handler passes its name check and issues its write.
ProjectAdvance(req) ==
    /\ reqs' = (reqs (-) SetToBag({req})) (+) SetToBag({[req EXCEPT !.stage = "write"]})
    /\ UNCHANGED <<tasks, projects, now, nops, resp, everDone>>

\* The store applies a write: document id becomes doc.
ProjectStoreWrite(req, id, doc) ==
    /\ projects' = IF id \in DOMAIN projects
                   THEN [projects EXCEPT ![id] = doc]
                   ELSE Append(projects, doc)
    /\ reqs' = reqs (-) SetToBag({req})
    /\ resp' = ProjectResponse(req.op, id, req.team, "ok", doc.name)
    /\ now' = now + 1
    /\ UNCHANGED <<tasks, nops, everDone>>

\* The create requests that have not saved yet.
Creating ==
    BagCardinality([req \in {r \in InFlight : r.op = "project.create"} |-> CopiesIn(req, reqs)])

\* ProjectsService.create, up to project.save()
ProjectCreateRead(c, name) ==
    /\ Len(projects) + Creating < MaxProjects
    /\ ~ActiveNamed(c.team, name, {})
    /\ Accepted(Request("project.create", 0, c) @@ [name |-> name, stage |-> "write"])

ProjectCreateConflict(c, name) ==
    /\ ActiveNamed(c.team, name, {})
    /\ ProjectRejected("project.create", 0, c, "Conflict", name)

\* project.save(): the insert, which the unique index may refuse.
ProjectCreateSave(req) ==
    /\ req.op = "project.create"
    /\ IF UniqueIndexAdmits(projects, 0, req.team, req.name)
       THEN \E ts \in Stamps(req) :
               ProjectStoreWrite(req, Len(projects) + 1,
                                 NewProjectDoc(req.name, req.team, req.user, ts))
       ELSE ProjectFailed(req, "DuplicateKey")

\* ProjectsService.findOne
ProjectFindOne(id, c) ==
    /\ ProjectFound(id, c.team)
    /\ resp' = ProjectResponse("project.findOne", id, c.team, "ok", projects[id].name)
    /\ UNCHANGED <<tasks, projects, reqs, now, nops, everDone>>

ProjectFindOneRejected(id, c) ==
    /\ ~ProjectFound(id, c.team)
    /\ ProjectRejected("project.findOne", id, c, "NotFound", Null)

\* ProjectsService.update, up to its second store call
ProjectUpdateRead(id, c, name) ==
    /\ ProjectFound(id, c.team)
    /\ Accepted(Request("project.update", id, c) @@
                [name |-> name,
                 stage |-> IF name # "" /\ name # projects[id].name THEN "check" ELSE "write"])

ProjectUpdateRejected(id, c, name) ==
    /\ ~ProjectFound(id, c.team)
    /\ ProjectRejected("project.update", id, c, "NotFound", name)

\* The name check of update.
ProjectUpdateCheck(req) ==
    /\ req.op = "project.update"
    /\ req.stage = "check"
    /\ IF ActiveNamed(req.team, req.name, {req.id})
       THEN ProjectFailed(req, "Conflict")
       ELSE ProjectAdvance(req)

\* findByIdAndUpdate(id, {$set: {...dto, updated_at}}), which the unique index
\* may refuse.
ProjectUpdateWrite(req) ==
    /\ req.op = "project.update"
    /\ req.stage = "write"
    /\ IF UniqueIndexAdmits(projects, req.id, projects[req.id].team_id, req.name)
       THEN \E ts \in Stamps(req) :
               ProjectStoreWrite(req, req.id,
                  [projects[req.id] EXCEPT !.name = req.name, !.updated_at = ts])
       ELSE ProjectFailed(req, "DuplicateKey")

\* ProjectsService.remove
ProjectRemoveRead(id, c) ==
    /\ ProjectFound(id, c.team)
    /\ Accepted(Request("project.remove", id, c) @@
                [name |-> projects[id].name, stage |-> "write"])

ProjectRemoveRejected(id, c) ==
    /\ ~ProjectFound(id, c.team)
    /\ ProjectRejected("project.remove", id, c, "NotFound", Null)

ProjectRemoveWrite(req) ==
    /\ req.op = "project.remove"
    /\ \E ts \in Stamps(req) :
          ProjectStoreWrite(req, req.id,
             [projects[req.id] EXCEPT !.deleted_at = Date(ts), !.updated_at = ts])

\* ProjectsService.restore, up to its name check
ProjectRestoreRead(id, c) ==
    /\ ProjectFoundDeleted(id, c.team)
    /\ Accepted(Request("project.restore", id, c) @@
                [name |-> projects[id].name, stage |-> "check"])

ProjectRestoreRejected(id, c) ==
    /\ ~ProjectFoundDeleted(id, c.team)
    /\ ProjectRejected("project.restore", id, c, "NotFound", Null)

\* The name check of restore.
ProjectRestoreCheck(req) ==
    /\ req.op = "project.restore"
    /\ req.stage = "check"
    /\ IF ActiveNamed(req.team, req.name, {})
       THEN ProjectFailed(req, "Conflict")
       ELSE ProjectAdvance(req)

\* findByIdAndUpdate(id, {$unset: {deleted_at}, $set: {updated_at}})
ProjectRestoreWrite(req) ==
    /\ req.op = "project.restore"
    /\ req.stage = "write"
    /\ \E ts \in Stamps(req) :
          ProjectStoreWrite(req, req.id,
             [projects[req.id] EXCEPT !.deleted_at = NoDate, !.updated_at = ts])

(***************************************************************************)
(* Specifications.                                                         *)
(***************************************************************************)
\* A request may arrive while fewer than MaxReqs are being handled, until MaxOps
\* writing requests have been accepted.
Room == BagCardinality(reqs) < MaxReqs

Quiet == reqs = EmptyBag

Budget == nops < MaxOps

\* Requests handled concurrently: any interleaving of the handlers' steps.
Next ==
    \/ \E c \in DOMAIN Callers, d \in DOMAIN CreateDtos :
          Budget /\ Room /\ Create(Callers[c], CreateDtos[d])
    \/ \E id \in TaskIds, c \in DOMAIN Callers : Budget /\ Room /\ FindOne(id, Callers[c])
    \/ \E id \in TaskIds, c \in DOMAIN Callers : Budget /\ Room /\ FindOneRejected(id, Callers[c])
    \/ \E id \in TaskIds, c \in DOMAIN Callers, p \in DOMAIN Patches :
          Budget /\ Room /\ UpdateRead(id, Callers[c], Patches[p])
    \/ \E id \in TaskIds, c \in DOMAIN Callers : Budget /\ Room /\ UpdateRejected(id, Callers[c])
    \/ \E id \in TaskIds, c \in DOMAIN Callers :
          Budget /\ Room /\ RemoveRead(id, Callers[c])
    \/ \E id \in TaskIds, c \in DOMAIN Callers : Budget /\ Room /\ RemoveRejected(id, Callers[c])
    \/ \E id \in TaskIds, c \in DOMAIN Callers :
          Budget /\ Room /\ RestoreRead(id, Callers[c])
    \/ \E id \in TaskIds, c \in DOMAIN Callers : Budget /\ Room /\ RestoreRejected(id, Callers[c])
    \/ \E id \in TaskIds, c \in DOMAIN Callers, pos \in Positions :
          Budget /\ Room /\ PositionRead(id, Callers[c], pos)
    \/ \E id \in TaskIds, c \in DOMAIN Callers : Budget /\ Room /\ PositionRejected(id, Callers[c])
    \/ \E req \in InFlight : UpdateWrite(req)
    \/ \E req \in InFlight : RemoveWrite(req)
    \/ \E req \in InFlight : RestoreWrite(req)
    \/ \E req \in InFlight : PositionWrite(req)

Spec == Init /\ [][Next]_vars

\* Requests handled one after another: a request starts when none is in flight.
SeqNext ==
    \/ \E c \in DOMAIN Callers, d \in DOMAIN CreateDtos :
          Budget /\ Quiet /\ Create(Callers[c], CreateDtos[d])
    \/ \E id \in TaskIds, c \in DOMAIN Callers : Budget /\ Quiet /\ FindOne(id, Callers[c])
    \/ \E id \in TaskIds, c \in DOMAIN Callers : Budget /\ Quiet /\ FindOneRejected(id, Callers[c])
    \/ \E id \in TaskIds, c \in DOMAIN Callers, p \in DOMAIN Patches :
          Budget /\ Quiet /\ UpdateRead(id, Callers[c], Patches[p])
    \/ \E id \in TaskIds, c \in DOMAIN Callers : Budget /\ Quiet /\ UpdateRejected(id, Callers[c])
    \/ \E id \in TaskIds, c \in DOMAIN Callers :
          Budget /\ Quiet /\ RemoveRead(id, Callers[c])
    \/ \E id \in TaskIds, c \in DOMAIN Callers : Budget /\ Quiet /\ RemoveRejected(id, Callers[c])
    \/ \E id \in TaskIds, c \in DOMAIN Callers :
          Budget /\ Quiet /\ RestoreRead(id, Callers[c])
    \/ \E id \in TaskIds, c \in DOMAIN Callers : Budget /\ Quiet /\ RestoreRejected(id, Callers[c])
    \/ \E id \in TaskIds, c \in DOMAIN Callers, pos \in Positions :
          Budget /\ Quiet /\ PositionRead(id, Callers[c], pos)
    \/ \E id \in TaskIds, c \in DOMAIN Callers : Budget /\ Quiet /\ PositionRejected(id, Callers[c])
    \/ \E req \in InFlight : UpdateWrite(req)
    \/ \E req \in InFlight : RemoveWrite(req)
    \/ \E req \in InFlight : RestoreWrite(req)
    \/ \E req \in InFlight : PositionWrite(req)

SeqSpec == Init /\ [][SeqNext]_vars

\* The budget of the project routes when requests come one after another.
ProjectBudget == nops < MaxProjectOps

\* The project routes, requests handled concurrently.
ProjectNext ==
    \/ \E c \in DOMAIN Callers, n \in DOMAIN ProjectNames :
          Budget /\ Room /\ ProjectCreateRead(Callers[c], ProjectNames[n])
    \/ \E c \in DOMAIN Callers, n \in DOMAIN ProjectNames :
          Budget /\ Room /\ ProjectCreateConflict(Callers[c], ProjectNames[n])
    \/ \E id \in ProjectIds, c \in DOMAIN Callers :
          Budget /\ Room /\ ProjectFindOne(id, Callers[c])
    \/ \E id \in ProjectIds, c \in DOMAIN Callers :
          Budget /\ Room /\ ProjectFindOneRejected(id, Callers[c])
    \/ \E id \in ProjectIds, c \in DOMAIN Callers, n \in DOMAIN ProjectNames :
          Budget /\ Room /\ ProjectUpdateRead(id, Callers[c], ProjectNames[n])
    \/ \E id \in ProjectIds, c \in DOMAIN Callers, n \in DOMAIN ProjectNames :
          Budget /\ Room /\ ProjectUpdateRejected(id, Callers[c], ProjectNames[n])
    \/ \E id \in ProjectIds, c \in DOMAIN Callers :
          Budget /\ Room /\ ProjectRemoveRead(id, Callers[c])
    \/ \E id \in ProjectIds, c \in DOMAIN Callers :
          Budget /\ Room /\ ProjectRemoveRejected(id, Callers[c])
    \/ \E id \in ProjectIds, c \in DOMAIN Callers :
          Budget /\ Room /\ ProjectRestoreRead(id, Callers[c])
    \/ \E id \in ProjectIds, c \in DOMAIN Callers :
          Budget /\ Room /\ ProjectRestoreRejected(id, Callers[c])
    \/ \E req \in InFlight : ProjectCreateSave(req)
    \/ \E req \in InFlight : ProjectUpdateCheck(req)
    \/ \E req \in InFlight : ProjectUpdateWrite(req)
    \/ \E req \in InFlight : ProjectRemoveWrite(req)
    \/ \E req \in InFlight : ProjectRestoreCheck(req)
    \/ \E req \in InFlight : ProjectRestoreWrite(req)

ProjectSpec == Init /\ [][ProjectNext]_vars

\* The project routes, requests handled one after another.
ProjectSeqNext ==
    \/ \E c \in DOMAIN Callers, n \in DOMAIN ProjectNames :
          ProjectBudget /\ Quiet /\ ProjectCreateRead(Callers[c], ProjectNames[n])
    \/ \E c \in DOMAIN Callers, n \in DOMAIN ProjectNames :
          ProjectBudget /\ Quiet /\ ProjectCreateConflict(Callers[c], ProjectNames[n])
    \/ \E id \in ProjectIds, c \in DOMAIN Callers :
          ProjectBudget /\ Quiet /\ ProjectFindOne(id, Callers[c])
    \/ \E id \in ProjectIds, c \in DOMAIN Callers :
          ProjectBudget /\ Quiet /\ ProjectFindOneRejected(id, Callers[c])
    \/ \E id \in ProjectIds, c \in DOMAIN Callers, n \in DOMAIN ProjectNames :
          ProjectBudget /\ Quiet /\ ProjectUpdateRead(id, Callers[c], ProjectNames[n])
    \/ \E id \in ProjectIds, c \in DOMAIN Callers, n \in DOMAIN ProjectNames :
          ProjectBudget /\ Quiet /\ ProjectUpdateRejected(id, Callers[c], ProjectNames[n])
    \/ \E id \in ProjectIds, c \in DOMAIN Callers :
          ProjectBudget /\ Quiet /\ ProjectRemoveRead(id, Callers[c])
    \/ \E id \in ProjectIds, c \in DOMAIN Callers :
          ProjectBudget /\ Quiet /\ ProjectRemoveRejected(id, Callers[c])
    \/ \E id \in ProjectIds, c \in DOMAIN Callers :
          ProjectBudget /\ Quiet /\ ProjectRestoreRead(id, Callers[c])
    \/ \E id \in ProjectIds, c \in DOMAIN Callers :
          ProjectBudget /\ Quiet /\ ProjectRestoreRejected(id, Callers[c])
    \/ \E req \in InFlight : ProjectCreateSave(req)
    \/ \E req \in InFlight : ProjectUpdateCheck(req)
    \/ \E req \in InFlight : ProjectUpdateWrite(req)
    \/ \E req \in InFlight : ProjectRemoveWrite(req)
    \/ \E req \in InFlight : ProjectRestoreCheck(req)
    \/ \E req \in InFlight : ProjectRestoreWrite(req)

ProjectSeqSpec == Init /\ [][ProjectSeqNext]_vars

\* The budget of the two services together.
ServiceBudget == nops < MaxServiceOps

\* Both services, requests handled one after another.  The tasks are created
\* from the first body and updated with the first patch: what a request writes
\* is checked under the specifications of the task routes.
ServiceSeqNext ==
    \/ \E c \in DOMAIN Callers : ServiceBudget /\ Quiet /\ Create(Callers[c], CreateDtos[1])
    \/ \E id \in TaskIds, c \in DOMAIN Callers : ServiceBudget /\ Quiet /\ FindOne(id, Callers[c])
    \/ \E id \in TaskIds, c \in DOMAIN Callers : ServiceBudget /\ Quiet /\ FindOneRejected(id, Callers[c])
    \/ \E id \in TaskIds, c \in DOMAIN Callers :
          ServiceBudget /\ Quiet /\ UpdateRead(id, Callers[c], Patches[1])
    \/ \E id \in TaskIds, c \in DOMAIN Callers : ServiceBudget /\ Quiet /\ UpdateRejected(id, Callers[c])
    \/ \E id \in TaskIds, c \in DOMAIN Callers :
          ServiceBudget /\ Quiet /\ RemoveRead(id, Callers[c])
    \/ \E id \in TaskIds, c \in DOMAIN Callers : ServiceBudget /\ Quiet /\ RemoveRejected(id, Callers[c])
    \/ \E id \in TaskIds, c \in DOMAIN Callers :
          ServiceBudget /\ Quiet /\ RestoreRead(id, Callers[c])
    \/ \E id \in TaskIds, c \in DOMAIN Callers : ServiceBudget /\ Quiet /\ RestoreRejected(id, Callers[c])
    \/ \E id \in TaskIds, c \in DOMAIN Callers, pos \in Positions :
          ServiceBudget /\ Quiet /\ PositionRead(id, Callers[c], pos)
    \/ \E id \in TaskIds, c \in DOMAIN Callers : ServiceBudget /\ Quiet /\ PositionRejected(id, Callers[c])
    \/ \E req \in InFlight : UpdateWrite(req)
    \/ \E req \in InFlight : RemoveWrite(req)
    \/ \E req \in InFlight : RestoreWrite(req)
    \/ \E req \in InFlight : PositionWrite(req)
    \/ \E c \in DOMAIN Callers, n \in DOMAIN ProjectNames :
          ServiceBudget /\ Quiet /\ ProjectCreateRead(Callers[c], ProjectNames[n])
    \/ \E c \in DOMAIN Callers, n \in DOMAIN ProjectNames :
          ServiceBudget /\ Quiet /\ ProjectCreateConflict(Callers[c], ProjectNames[n])
    \/ \E id \in ProjectIds, c \in DOMAIN Callers :
          ServiceBudget /\ Quiet /\ ProjectFindOne(id, Callers[c])
    \/ \E id \in ProjectIds, c \in DOMAIN Callers :
          ServiceBudget /\ Quiet /\ ProjectFindOneRejected(id, Callers[c])
    \/ \E id \in ProjectIds, c \in DOMAIN Callers, n \in DOMAIN ProjectNames :
          ServiceBudget /\ Quiet /\ ProjectUpdateRead(id, Callers[c], ProjectNames[n])
    \/ \E id \in ProjectIds, c \in DOMAIN Callers, n \in DOMAIN ProjectNames :
          ServiceBudget /\ Quiet /\ ProjectUpdateRejected(id, Callers[c], ProjectNames[n])
    \/ \E id \in ProjectIds, c \in DOMAIN Callers :
          ServiceBudget /\ Quiet /\ ProjectRemoveRead(id, Callers[c])
    \/ \E id \in ProjectIds, c \in DOMAIN Callers :
          ServiceBudget /\ Quiet /\ ProjectRemoveRejected(id, Callers[c])
    \/ \E id \in ProjectIds, c \in DOMAIN Callers :
          ServiceBudget /\ Quiet /\ ProjectRestoreRead(id, Callers[c])
    \/ \E id \in ProjectIds, c \in DOMAIN Callers :
          ServiceBudget /\ Quiet /\ ProjectRestoreRejected(id, Callers[c])
    \/ \E req \in InFlight : ProjectCreateSave(req)
    \/ \E req \in InFlight : ProjectUpdateCheck(req)
    \/ \E req \in InFlight : ProjectUpdateWrite(req)
    \/ \E req \in InFlight : ProjectRemoveWrite(req)
    \/ \E req \in InFlight : ProjectRestoreCheck(req)
    \/ \E req \in InFlight : ProjectRestoreWrite(req)

ServiceSeqSpec == Init /\ [][ServiceSeqNext]_vars

\* Time passes while requests are being handled.
Tick ==
    /\ now < MaxClock
    /\ now' = now + 1
    /\ UNCHANGED <<tasks, projects, reqs, nops, resp, everDone>>

\* One team's requests on one task, handled concurrently, under a running clock.
ClockNext ==
    \/ Quiet /\ tasks = <<>> /\ Create(Callers[1], CreateDtos[1])
    \/ \E p \in {1, 5} : Budget /\ Room /\ UpdateRead(1, Callers[1], Patches[p])
    \/ Budget /\ Room /\ RemoveRead(1, Callers[1])
    \/ Budget /\ Room /\ RestoreRead(1, Callers[1])
    \/ \E pos \in Positions : Budget /\ Room /\ PositionRead(1, Callers[1], pos)
    \/ \E req \in InFlight : UpdateWrite(req)
    \/ \E req \in InFlight : RemoveWrite(req)
    \/ \E req \in InFlight : RestoreWrite(req)
    \/ \E req \in InFlight : PositionWrite(req)
    \/ Tick

ClockSpec == Init /\ [][ClockNext]_vars

\* The History Recorder on its own: a task document with a history of any
\* length up to the limit, whose times are its positions, and addHistoryEntry
\* called on it again and again.
RecorderActions == {"updated", "commented"}

RecorderInit ==
    /\ \E n \in 0..HISTORY_LIMIT :
          /\ tasks = << [NewTaskDoc(CreateDtos[1], Callers[1].team, Callers[1].user, 0)
                           EXCEPT !.history =
                              [i \in 1..n |-> HistoryEntry("updated", Callers[1].user, i, <<>>)]] >>
          /\ now = n + 1
    /\ projects = <<>>
    /\ reqs = EmptyBag
    /\ nops = 0
    /\ resp = NoResp
    /\ everDone = {}

RecorderAppend(action, c) ==
    /\ tasks' = [tasks EXCEPT ![1].history = AddHistoryEntry(@, action, c.user, now, <<>>)]
    /\ now' = now + 1
    /\ nops' = nops + 1
    /\ UNCHANGED <<projects, reqs, resp, everDone>>

RecorderNext ==
    \E action \in RecorderActions, c \in DOMAIN Callers :
       Budget /\ RecorderAppend(action, Callers[c])

RecorderSpec == RecorderInit /\ [][RecorderNext]_vars

\* A task as create stores it at time 1, and as an update at time 2 leaves it.
CreatedDoc(c, dto) == PreSave(NewTaskDoc(dto, c.team, c.user, 1), TRUE, FALSE, 1)

UpdatedDoc(doc, c, dto) ==
    ApplyUpdate(doc, [patch |-> dto,
                      changes |-> Changes(doc, dto),
                      action |-> HistoryAction(doc, dto),
                      setCompleted |-> SetsCompleted(doc, dto),
                      user |-> c.user], 2)

RoundTripDocs ==
    LET created == {CreatedDoc(Callers[1], CreateDtos[d]) : d \in DOMAIN CreateDtos}
    IN  created \cup {UpdatedDoc(doc, Callers[1], Patches[p]) :
                         doc \in created, p \in DOMAIN Patches}

\* Removes and restores of task 1, one after another.  Task 2 is its twin, made
\* by the same requests at the same instants, which no request touches: it
\* shows what task 1 was before.
RoundTripInit ==
    /\ \E doc \in RoundTripDocs : tasks = <<doc, doc>>
    /\ projects = <<>>
    /\ reqs = EmptyBag
    /\ now = 3
    /\ nops = 0
    /\ resp = NoResp
    /\ everDone = HeldDone(tasks)

RoundTripNext ==
    \/ \E c \in DOMAIN Callers : Budget /\ Quiet /\ RemoveRead(1, Callers[c])
    \/ \E c \in DOMAIN Callers : Budget /\ Quiet /\ RemoveRejected(1, Callers[c])
    \/ \E c \in DOMAIN Callers : Budget /\ Quiet /\ RestoreRead(1, Callers[c])
    \/ \E c \in DOMAIN Callers : Budget /\ Quiet /\ RestoreRejected(1, Callers[c])
    \/ \E req \in InFlight : RemoveWrite(req)
    \/ \E req \in InFlight : RestoreWrite(req)

RoundTripSpec == RoundTripInit /\ [][RoundTripNext]_vars

\* One team's tasks and their statistics, requests handled concurrently.
StatsNext ==
    \/ \E d \in DOMAIN CreateDtos : Budget /\ Room /\ Create(Callers[1], CreateDtos[d])
    \/ \E id \in TaskIds : Budget /\ Room /\ UpdateRead(id, Callers[1], Patches[1])
    \/ \E id \in TaskIds : Budget /\ Room /\ RemoveRead(id, Callers[1])
    \/ Budget /\ Room /\ StatsStart(Callers[1])
    \/ \E req \in InFlight : UpdateWrite(req)
    \/ \E req \in InFlight : RemoveWrite(req)
    \/ \E req \in InFlight, part \in StatsParts : StatsRead(req, part)
    \/ \E req \in InFlight : StatsReturn(req)

StatsSpec == Init /\ [][StatsNext]_vars

\* The same, requests handled one after another.
StatsSeqNext ==
    \/ \E d \in DOMAIN CreateDtos : Budget /\ Quiet /\ Create(Callers[1], CreateDtos[d])
    \/ \E id \in TaskIds : Budget /\ Quiet /\ UpdateRead(id, Callers[1], Patches[1])
    \/ \E id \in TaskIds : Budget /\ Quiet /\ RemoveRead(id, Callers[1])
    \/ Budget /\ Quiet /\ StatsStart(Callers[1])
    \/ \E req \in InFlight : UpdateWrite(req)
    \/ \E req \in InFlight : RemoveWrite(req)
    \/ \E req \in InFlight, part \in StatsParts : StatsRead(req, part)
    \/ \E req \in InFlight : StatsReturn(req)

StatsSeqSpec == Init /\ [][StatsSeqNext]_vars

\* One team's requests, one after another, with bodies the routes must refuse
\* among them.
InputNext ==
    \/ \E d \in DOMAIN CreateDtos : Budget /\ Quiet /\ Create(Callers[1], CreateDtos[d])
    \/ \E d \in DOMAIN InputCreateDtos :
          Budget /\ Quiet /\ Create(Callers[1], InputCreateDtos[d])
    \/ \E d \in DOMAIN InputCreateDtos :
          Budget /\ Quiet /\ CreateInvalid(Callers[1], InputCreateDtos[d])
    \/ \E d \in DOMAIN InputCreateDtos :
          Budget /\ Quiet /\ CreateSaveFailed(Callers[1], InputCreateDtos[d])
    \/ \E id \in TaskIds, p \in DOMAIN Patches :
          Budget /\ Quiet /\ UpdateRead(id, Callers[1], Patches[p])
    \/ \E id \in TaskIds, p \in DOMAIN InputPatches :
          Budget /\ Quiet /\ UpdateRead(id, Callers[1], InputPatches[p])
    \/ \E id \in TaskIds, p \in DOMAIN InputPatches :
          Budget /\ Quiet /\ UpdateInvalid(id, Callers[1], InputPatches[p])
    \/ \E id \in TaskIds : Budget /\ Quiet /\ RemoveRead(id, Callers[1])
    \/ \E id \in TaskIds : Budget /\ Quiet /\ RestoreRead(id, Callers[1])
    \/ \E id \in TaskIds, pos \in Positions :
          Budget /\ Quiet /\ PositionRead(id, Callers[1], pos)
    \/ \E req \in InFlight : UpdateWrite(req)
    \/ \E req \in InFlight : RemoveWrite(req)
    \/ \E req \in InFlight : RestoreWrite(req)
    \/ \E req \in InFlight : PositionWrite(req)

InputSpec == Init /\ [][InputNext]_vars

\* One client updating one task over and over, each request after the last.
HistoryNext ==
    \/ Quiet /\ tasks = <<>> /\ Create(Callers[1], CreateDtos[1])
    \/ /\ Quiet
       /\ tasks # <<>>
       /\ Len(tasks[1].history) <= HISTORY_LIMIT
       /\ UpdateRead(1, Callers[1], Patches[1])
    \/ \E req \in InFlight : UpdateWrite(req)

HistorySpec == Init /\ [][HistoryNext]_vars

(***************************************************************************)
(* Properties.                                                             *)
(***************************************************************************)
TaskOps == {"findOne", "update", "remove", "restore", "updatePosition"}

Last(seq) == seq[Len(seq)]

\* The request whose findByIdAndUpdate the store applies in this step.
Applies(req) == req \in InFlight /\ reqs' = reqs (-) SetToBag({req})

\* C1: a findOne, update, remove, restore or updatePosition called with a team
\* other than the task's team ends in NotFound and leaves the task as it was.
C1_TenantIsolation ==
    [][\A id \in DOMAIN tasks :
          (resp'.op \in TaskOps /\ resp'.id = id /\ resp'.team # tasks[id].team_id)
             => (resp'.outcome = "NotFound" /\ tasks'[id] = tasks[id])]_vars

\* An update by the other team was rejected on a task that exists and is active.
C1_Witness ==
    /\ resp.op = "update"
    /\ resp.outcome = "NotFound"
    /\ resp.id \in DOMAIN tasks
    /\ tasks[resp.id].team_id # resp.team
    /\ tasks[resp.id].deleted_at = NoDate

\* C2: every task's embedded history has at most 100 entries in every
\* reachable state.
C2_HistoryCap ==
    \A id \in DOMAIN tasks : Len(tasks[id].history) <= HISTORY_LIMIT

\* C3: completed_at is non-null if and only if the task has at some point held
\* status done, a task created with status done included.
C3_CompletedIffEverDone ==
    \A id \in DOMAIN tasks : (tasks[id].completed_at # NoDate) <=> (id \in everDone)

C5_CompletedAtWrittenOnce ==
    [][\A req \in InFlight :
          (Applies(req) /\ req.op = "update" /\ tasks[req.id].completed_at # NoDate)
             => tasks'[req.id].completed_at = tasks[req.id].completed_at]_vars

\* C6: completed_at is set only by a step that changes status into done; an
\* update to done of a task already done does not set it.
C6_CompletedOnlyOnStatusChange ==
    [][\A id \in DOMAIN tasks :
          tasks'[id].completed_at # tasks[id].completed_at
             => (tasks[id].status # "done" /\ tasks'[id].status = "done")]_vars

\* The patch fields whose value differs from the stored task.
Differing(doc, dto) == {k \in DOMAIN dto : dto[k] # doc[k]}

ChangedFields(entry) == {entry.changes[i].field : i \in DOMAIN entry.changes}

\* C7: a successful update appends exactly one history entry, with one change per
\* patch field whose value differs from the task, and action status_changed if
\* status differs, else assigned if assignee_id differs, else updated.
C7_OneEntryPerUpdate ==
    [][\A req \in InFlight :
          (Applies(req) /\ req.op = "update")
             => LET old == tasks[req.id]
                    new == tasks'[req.id]
                    diff == Differing(old, req.patch)
                IN  /\ Len(new.history) = Len(old.history) + 1
                    /\ Len(Last(new.history).changes) = Cardinality(diff)
                    /\ ChangedFields(Last(new.history)) = diff
                    /\ Last(new.history).action =
                          IF "status" \in diff THEN "status_changed"
                          ELSE IF "assignee_id" \in diff THEN "assigned"
                          ELSE "updated"]_vars

\* The fields of a task whose changes the history tracks.
TrackedFields == {"status", "priority", "assignee_id", "labels", "position", "deleted_at"}

\* C8: every step that changes a tracked field of a task appends exactly one
\* history entry, which lists every field the step changed.
C8_EveryMutationRecorded ==
    [][\A id \in DOMAIN tasks :
          LET changed == {k \in TrackedFields : tasks'[id][k] # tasks[id][k]}
          IN  changed # {}
                 => /\ Len(tasks'[id].history) = Len(tasks[id].history) + 1
                    /\ changed \subseteq ChangedFields(Last(tasks'[id].history))]_vars

\* C9: the history is append-only: a step keeps every entry, unmodified and in
\* order, new entries come at the end, and entries leave only from the front,
\* when the history is at its limit.
C9_HistoryAppendOnly ==
    [][\A id \in DOMAIN tasks :
          LET h == tasks[id].history
              g == tasks'[id].history
          IN  \E k \in 0..Len(h) :
                 /\ k > 0 => Len(g) = HISTORY_LIMIT
                 /\ Len(g) >= Len(h) - k
                 /\ SubSeq(g, 1, Len(h) - k) = SubSeq(h, k + 1, Len(h))]_vars

\* A task whose history has grown by an update and a remove.
C9_Witness ==
    \E id \in DOMAIN tasks :
       /\ Len(tasks[id].history) >= 3
       /\ Last(tasks[id].history).action = "deleted"

Restored(doc) == doc.deleted_at = NoDate /\ Last(doc.history).action = "restored"

\* What C10 says of one task, for the listing without and with deleted tasks.
Listed(id, query, queryDeleted) ==
    LET doc == tasks[id]
    IN  /\ doc.deleted_at # NoDate
           => /\ id \notin FindAll(doc.team_id, query)
              /\ id \in FindAll(doc.team_id, queryDeleted)
        /\ Restored(doc) => id \in FindAll(doc.team_id, query)

ActiveOnly(store) == SelectSeq(store, LAMBDA doc : doc.deleted_at = NoDate)

\* The ids a board shows, in any column.
OnBoard(board) == UNION {{board[st][i] : i \in DOMAIN board[st]} : st \in TaskStatus}

\* C11: while a task is soft-deleted, findOne on it ends in NotFound, no board of
\* getKanbanBoard shows it, no figure of getTaskStats counts it, and update,
\* updatePosition and remove called on it end in NotFound and are not accepted.
C11_DeletedIsHidden ==
    [][\A id \in DOMAIN tasks :
          tasks[id].deleted_at # NoDate
             => /\ \A board \in KanbanBoards(tasks, tasks[id].team_id) :
                      id \notin OnBoard(board)
                /\ TaskStats(tasks, tasks[id].team_id, now)
                      = TaskStats(ActiveOnly(tasks), tasks[id].team_id, now)
                /\ (/\ tasks' = tasks
                    /\ reqs' = reqs
                    /\ resp'.id = id
                    /\ resp'.op \in {"findOne", "update", "updatePosition", "remove"})
                      => resp'.outcome = "NotFound"
                /\ \A req \in BagToSet(reqs') :
                      (req.id = id /\ req.op \in {"update", "updatePosition", "remove"})
                         => CopiesIn(req, reqs') <= CopiesIn(req, reqs)]_vars

\* An update by the task's own team was rejected on a soft-deleted, overdue task.
C11_Witness ==
    /\ resp.op = "update"
    /\ resp.outcome = "NotFound"
    /\ resp.id \in DOMAIN tasks
    /\ tasks[resp.id].team_id = resp.team
    /\ tasks[resp.id].deleted_at # NoDate
    /\ tasks[resp.id].due_date # NoDate

DeletedNamed(teamId, name, except) ==
    \E id \in DOMAIN projects \ except :
       /\ projects[id].name = name
       /\ projects[id].team_id = teamId
       /\ projects[id].deleted_at # NoDate

C14_DeletedNameIsFree ==
    [][\A req \in InFlight :
          (/\ Applies(req)
           /\ req.op \in {"project.create", "project.update"}
           /\ DeletedNamed(req.team, req.name, {req.id})
           /\ ~ActiveNamed(req.team, req.name, {req.id}))
             => resp'.outcome = "ok"]_vars

Teams == {Callers[c].team : c \in DOMAIN Callers}

\* The members of a sequence.
Range(seq) == {seq[i] : i \in DOMAIN seq}

\* C15: every board getKanbanBoard can return has, for each status, exactly the
\* active tasks of the team with that status, each once, in ascending position.
C15_BoardColumns ==
    \A team \in Teams :
       /\ KanbanBoards(tasks, team) # {}
       /\ \A board \in KanbanBoards(tasks, team), st \in TaskStatus :
             LET col == board[st]
             IN  /\ Range(col) = {id \in DOMAIN tasks :
                                    /\ tasks[id].team_id = team
                                    /\ tasks[id].deleted_at = NoDate
                                    /\ tasks[id].status = st}
                 /\ Cardinality(Range(col)) = Len(col)
                 /\ \A i, j \in DOMAIN col :
                       i < j => tasks[col[i]].position <= tasks[col[j]].position

\* Two active tasks share a column and the one created later was moved in front
\* of the one created first.
C15_Witness ==
    \E i, j \in DOMAIN tasks :
       /\ i < j
       /\ tasks[i].team_id = tasks[j].team_id
       /\ tasks[i].status = tasks[j].status
       /\ tasks[i].deleted_at = NoDate
       /\ tasks[j].deleted_at = NoDate
       /\ tasks[j].position < tasks[i].position
       /\ \A board \in KanbanBoards(tasks, tasks[i].team_id) :
             board[tasks[i].status] = <<j, i>>

\* C16: the order of the board and of the list is deterministic: in every state
\* each team has one possible board and one possible order of its full list,
\* also when positions tie.
C16_DeterministicOrder ==
    \A team \in Teams :
       /\ Cardinality(KanbanBoards(tasks, team)) = 1
       /\ Cardinality(FindAllOrders(team, IncludeCompleted)) = 1

\* What C17 says of the task a create by caller c with body dto has stored.
CreatedAsStated(doc, c, dto) ==
    /\ doc.deleted_at = NoDate
    /\ doc.status = IF "status" \in DOMAIN dto THEN dto.status ELSE "todo"
    /\ doc.priority = IF "priority" \in DOMAIN dto THEN dto.priority ELSE 3
    /\ doc.completed_at = NoDate
    /\ doc.team_id = c.team
    /\ doc.created_by = c.user
    /\ Len(doc.history) = 1
    /\ doc.history[1].action = "created"
    /\ doc.history[1].changes = << Change("status", Null, doc.status) >>

AppendsOne(id) ==
    /\ Len(tasks'[id].history) = Len(tasks[id].history) + 1
    /\ SubSeq(tasks'[id].history, 1, Len(tasks[id].history)) = tasks[id].history

\* The step changes task id in the given fields at most, and no other task.
ChangesOnly(id, fields) ==
    /\ DOMAIN tasks' = DOMAIN tasks
    /\ \A other \in DOMAIN tasks \ {id} : tasks'[other] = tasks[other]
    /\ \A k \in DOMAIN tasks[id] \ fields : tasks'[id][k] = tasks[id][k]

\* The step accepts request req: its handler passed its lookup.
Accepts(req) == CopiesIn(req, reqs') > CopiesIn(req, reqs)

\* The step is a call of op that ends without a write to the store.
EndsUnwritten(op) ==
    /\ tasks' = tasks
    /\ reqs' = reqs
    /\ resp' # resp
    /\ resp'.op = op

C20_PositionNotFound ==
    [][/\ EndsUnwritten("updatePosition")
          => /\ resp'.outcome = "NotFound"
             /\ ~(/\ resp'.id \in DOMAIN tasks
                  /\ tasks[resp'.id].team_id = resp'.team
                  /\ tasks[resp'.id].deleted_at = NoDate)
       /\ \A req \in BagToSet(reqs') :
             (Accepts(req) /\ req.op = "updatePosition")
                => /\ req.id \in DOMAIN tasks
                   /\ tasks[req.id].team_id = req.team
       /\ \A req \in InFlight :
             (Applies(req) /\ req.op = "updatePosition")
                => /\ resp' = Response("updatePosition", req.id, req.team, "ok")
                   /\ tasks'[req.id].position = req.position
       /\ (resp' # resp /\ resp'.op = "updatePosition" /\ resp'.outcome = "ok")
             => \E req \in InFlight :
                   /\ Applies(req)
                   /\ req.op = "updatePosition"
                   /\ tasks'[resp'.id].position = req.position]_vars

\* An updatePosition on an id that no task has ended in NotFound.
C20_Witness ==
    /\ resp.op = "updatePosition"
    /\ resp.outcome = "NotFound"
    /\ resp.id \notin DOMAIN tasks
    /\ tasks # <<>>

\* C21: the write of updatePosition sets the task's position to exactly the
\* value of the request and changes nothing else but updated_at: no other field
\* of the task and no other task, whatever their positions.
C21_PositionFrame ==
    [][\A req \in InFlight :
          (Applies(req) /\ req.op = "updatePosition")
             => /\ tasks'[req.id].position = req.position
                /\ ChangesOnly(req.id, {"position", "updated_at"})]_vars

\* An updatePosition has just given a task the position of its sibling, which
\* kept it: two active tasks of one team and status have equal positions.
C21_Witness ==
    /\ resp.op = "updatePosition"
    /\ resp.outcome = "ok"
    /\ \E other \in DOMAIN tasks \ {resp.id} :
          /\ tasks[other].team_id = tasks[resp.id].team_id
          /\ tasks[other].status = tasks[resp.id].status
          /\ tasks[other].deleted_at = NoDate
          /\ tasks[resp.id].deleted_at = NoDate
          /\ tasks[other].position = tasks[resp.id].position
          /\ tasks[resp.id].position # tasks[resp.id].created_at

\* C22: an operation on a task or a project that ends in NotFound or Conflict
\* has written nothing: every step that changes a stored task or project is the
\* one step of a create, or the last step of a request, and ends in success.
C22_RejectedWritesNothing ==
    [][(tasks' # tasks \/ projects' # projects)
          => /\ resp'.outcome = "ok"
             /\ \/ resp'.op = "create" /\ reqs' = reqs
                \/ \E req \in InFlight : Applies(req) /\ resp'.op = req.op]_vars

\* The rename of a project to the name of another active project of its team
\* ended in Conflict, and the project has the name it had.
C22_Witness ==
    /\ resp.op = "project.update"
    /\ resp.outcome = "Conflict"
    /\ resp.id \in DOMAIN projects
    /\ projects[resp.id].name # resp.name
    /\ projects[resp.id].deleted_at = NoDate

\* The step is the write of an update, remove or restore of task id.
Records(req, id) ==
    /\ Applies(req)
    /\ req.id = id
    /\ req.op \in {"update", "remove", "restore"}

\* C23: a task's field change and its history entry come in one step, also
\* between the steps of concurrent requests: the write of an update, remove or
\* restore appends its one entry and sets its fields in the same step, no other
\* step touches the history, and only updatePosition changes a field without one.
C23_ChangeWithEntry ==
    [][\A id \in DOMAIN tasks :
          LET old == tasks[id]
              new == tasks'[id]
              fields == {k \in DOMAIN old \ {"history"} : new[k] # old[k]}
          IN  /\ new.history # old.history <=> \E req \in InFlight : Records(req, id)
              /\ \A req \in InFlight :
                    Records(req, id)
                       => /\ AppendsOne(id)
                          /\ Last(new.history).user_id = req.user
                          /\ req.op = "update"
                                => /\ \A k \in DOMAIN req.patch : new[k] = req.patch[k]
                                   /\ Last(new.history).changes = req.changes
                          /\ req.op = "remove" => new.deleted_at # NoDate
                          /\ req.op = "restore" => new.deleted_at = NoDate
              /\ fields # {}
                    => \/ new.history # old.history
                       \/ \E req \in InFlight :
                             Applies(req) /\ req.id = id /\ req.op = "updatePosition"]_vars

\* An update has been applied, status and history entry both, to a task that
\* another accepted request is about to write.
C23_Witness ==
    /\ resp.op = "update"
    /\ resp.outcome = "ok"
    /\ tasks[resp.id].status = "done"
    /\ tasks[resp.id].history # <<>>
    /\ Last(tasks[resp.id].history).action = "status_changed"
    /\ \E req \in InFlight : req.id = resp.id /\ req.op \in {"update", "remove"}

\* C24: of two updates of one task that run concurrently both complete: the
\* write of each ends in success, keeps every history entry that is there (the
\* other request's too) and adds its own, and leaves every field of its patch at
\* the patch's value, so that a field set by both holds the later write's value.
C24_ConcurrentUpdates ==
    [][\A req \in InFlight :
          (Applies(req) /\ req.op = "update")
             => LET old == tasks[req.id]
                    new == tasks'[req.id]
                IN  /\ resp' = Response("update", req.id, req.team, "ok")
                    /\ Len(new.history) = Len(old.history) + 1
                    /\ \A i \in DOMAIN old.history : new.history[i] = old.history[i]
                    /\ Last(new.history).action = req.action
                    /\ Last(new.history).user_id = req.user
                    /\ \A k \in DOMAIN req.patch : new[k] = req.patch[k]]_vars

\* Two updates read the task before either wrote: both entries record a change
\* of priority from the value both read, the first write's value is 1, and the
\* task holds the value of the later write, which is the value both read.
C24_Witness ==
    /\ resp.op = "update"
    /\ resp.outcome = "ok"
    /\ LET h == tasks[resp.id].history
           n == Len(h)
       IN  /\ n >= 2
           /\ \E i \in DOMAIN h[n - 1].changes :
                 h[n - 1].changes[i] = Change("priority", DEFAULT_PRIORITY, 1)
           /\ h[n].changes = <<>>
           /\ h[n].action = "updated"
           /\ tasks[resp.id].priority = DEFAULT_PRIORITY

\* C25: the stored updated_at of a task never decreases, whatever the
\* interleaving of concurrent update, updatePosition, remove and restore
\* requests, and the write of each of them sets it.
C25_UpdatedAtMonotonic ==
    [][/\ \A id \in DOMAIN tasks : tasks'[id].updated_at >= tasks[id].updated_at
       /\ \A req \in InFlight :
             Applies(req) => tasks'[req.id].updated_at \in Stamps(req)]_vars

\* C26: the timestamps of consecutive entries of a task's history never
\* decrease, whatever the interleaving of concurrent mutations.
C26_HistoryInTimeOrder ==
    \A id \in DOMAIN tasks :
       \A i \in 1..(Len(tasks[id].history) - 1) :
          tasks[id].history[i].timestamp <= tasks[id].history[i + 1].timestamp

\* A stored task as it would be if it belonged to the given team.
OfTeam(doc, team) == [doc EXCEPT !.team_id = team]

\* C27: every read and write of a task operation carries the caller's team in
\* its filter: the lookups of findOne and restore, the listings, and the write
\* of every request in flight would pass over the task if it were another team's.
C27_TeamInEveryFilter ==
    \A id \in DOMAIN tasks, team \in Teams, caller \in Teams :
       LET doc == OfTeam(tasks[id], team)
       IN  /\ FindOneFilter(doc, caller) => team = caller
           /\ RestoreFilter(doc, caller) => team = caller
           /\ FindAllFilter(doc, caller, IncludeDeletedAndCompleted) => team = caller
           /\ KanbanFilter(doc, caller) => team = caller
           /\ StatsFilter(doc, caller) => team = caller
           /\ \A req \in InFlight :
                 (req.id = id /\ req.team = caller /\ FindByIdFilter(doc, caller))
                    => team = caller

\* C28: the team_id and the created_by of a task never change after its
\* creation, whatever update, updatePosition, remove and restore do and whatever
\* the body of an update names.
C28_OwnershipKept ==
    [][\A id \in DOMAIN tasks :
          /\ tasks'[id].team_id = tasks[id].team_id
          /\ tasks'[id].created_by = tasks[id].created_by]_vars

\* An update was refused for its body, after an update gave the task a new title.
C28_Witness ==
    /\ resp.op = "update"
    /\ resp.outcome = "BadRequest"
    /\ resp.id \in DOMAIN tasks
    /\ tasks[resp.id].team_id = Callers[1].team
    /\ tasks[resp.id].created_by = Callers[1].user
    /\ tasks[resp.id].title = <<"b">>
    /\ Len(tasks[resp.id].history) = 2

\* C29: a stored task never has more than 50 labels, through create or update.
C29_LabelsLimit ==
    \A id \in DOMAIN tasks : Len(tasks[id].labels) <= MAX_LABELS

\* C30: the title of a stored task has between 1 and 200 characters, through
\* create or update.
C30_TitleLength ==
    \A id \in DOMAIN tasks :
       /\ Len(tasks[id].title) >= 1
       /\ Len(tasks[id].title) <= MAX_TITLE

\* The active tasks of a team.
ActiveOf(team) ==
    {id \in DOMAIN tasks : tasks[id].team_id = team /\ tasks[id].deleted_at = NoDate}

\* C31: no step of getTaskStats changes a task, and a call with no other request
\* in flight returns as overdue the number of active tasks of the team that are
\* due before now and not done, and as total the number of its active tasks.
C31_StatsReadOnly ==
    [][\A req \in InFlight \cup BagToSet(reqs') :
          req.op = "getTaskStats"
             => /\ CopiesIn(req, reqs') # CopiesIn(req, reqs) => tasks' = tasks
                /\ Applies(req)
                      => /\ resp'.stats.total = Cardinality(ActiveOf(req.team))
                         /\ resp'.stats.overdue =
                               Cardinality({id \in ActiveOf(req.team) :
                                  /\ tasks[id].due_date # NoDate
                                  /\ tasks[id].due_date[1] < now
                                  /\ tasks[id].status # "done"})]_vars

\* A call returned a total of 2 and an overdue figure of 1 for a team with two
\* active tasks, one of them due and open.
C31_Witness ==
    /\ resp.op = "getTaskStats"
    /\ resp.stats.total = 2
    /\ resp.stats.overdue = 1
    /\ Cardinality(ActiveOf(resp.team)) = 2

\* C39: a getTaskStats result is consistent with itself, also when tasks are
\* written while it is computed: its total is the sum of its counts by status
\* and the sum of its counts by priority.
C39_StatsSelfConsistent ==
    resp.op = "getTaskStats"
       => LET st == resp.stats
          IN  /\ st.total = st.by_status["todo"] + st.by_status["in_progress"]
                               + st.by_status["done"] + st.by_status["blocked"]
              /\ st.total = st.by_priority[1] + st.by_priority[2] + st.by_priority[3]
                               + st.by_priority[4] + st.by_priority[5]

C33_OldValueIsStoredValue ==
    [][\A id \in DOMAIN tasks :
          Len(tasks'[id].history) > Len(tasks[id].history)
             => LET entry == Last(tasks'[id].history)
                IN  \A i \in DOMAIN entry.changes :
                       entry.changes[i].old_value = tasks[id][entry.changes[i].field]]_vars

\* C34: no write of update or updatePosition is applied to a task that is
\* soft-deleted at the moment of the write, also when a remove of the task runs
\* between the request's findOne and its write.
C34_NoWriteToDeleted ==
    [][\A req \in InFlight :
          (Applies(req) /\ req.op \in {"update", "updatePosition"})
             => /\ tasks[req.id].deleted_at = NoDate
                /\ tasks'[req.id].deleted_at = NoDate]_vars

\* The positions of the deleted and restored entries of a history.
Lifecycle(history) == {i \in DOMAIN history : history[i].action \in {"deleted", "restored"}}

\* C35: in every history the deleted and restored entries alternate, starting
\* with deleted, under any interleaving of concurrent removes and restores.
C35_DeletedRestoredAlternate ==
    \A id \in DOMAIN tasks :
       LET h == tasks[id].history
       IN  \A i \in Lifecycle(h) :
              IF \E j \in Lifecycle(h) : j < i
              THEN LET prev == CHOOSE j \in Lifecycle(h) :
                                  /\ j < i
                                  /\ \A k \in Lifecycle(h) : k < i => k <= j
                   IN  h[prev].action # h[i].action
              ELSE h[i].action = "deleted"

\* C36: every entry of every history has an action the schema declares for
\* history entries: created, updated, assigned, status_changed or commented.
C36_ActionsInEnum ==
    \A id \in DOMAIN tasks :
       \A i \in DOMAIN tasks[id].history :
          tasks[id].history[i].action \in HistoryActionEnum

\* C37: every successful update appends exactly one history entry and sets
\* updated_at, also when no field of the patch differs from the task; the entry
\* then has the action updated and no changes.
C37_UpdateAlwaysRecorded ==
    [][\A req \in InFlight :
          (Applies(req) /\ req.op = "update")
             => LET old == tasks[req.id]
                    new == tasks'[req.id]
                IN  /\ AppendsOne(req.id)
                    /\ new.updated_at \in Stamps(req)
                    /\ Differing(old, req.patch) = {}
                          => /\ Last(new.history).action = "updated"
                             /\ Last(new.history).changes = <<>>]_vars

====
